---------------------------- MODULE Spec2Model ----------------------------
(***************************************************************************)
(* Model of the mpesa-gateway transaction lifecycle: payment initiation    *)
(* (internal/payment/service.go, internal/handlers/handlers.go), the       *)
(* callback processing pipeline and the webhook delivery loop (worker      *)
(* processor), over the two tables of migrations/001_initial_schema.sql.   *)
(*                                                                         *)
(* Time is counted in minutes, on the clock of the worker that runs a      *)
(* task, started when it takes the task.  A store row is identified by the *)
(* API call that created it (its generated uuid).                          *)
(***************************************************************************)
EXTENDS Integers, Sequences, FiniteSets, TLC

\* ------------------------------------------------------------------ bounds
NumClients == 2      \* POST /initiate calls
NumLive    == 1      \* of them, calls that run while callbacks are processed
NumKeys    == 2      \* distinct idempotency keys the clients choose from
MaxTasks   == 2      \* callback tasks the upstream enqueues
MaxFaults  == 1      \* failed store statements and worker crashes in one run
NumCallers == 3      \* GetToken calls
MaxTicks   == 2      \* steps of the clock while GetToken calls run
TickSeconds == 60    \* length of a clock step
MaxRequests == 2     \* POST /callback requests
MaxAmountLen == 3    \* characters of the amount text of a POST /initiate
MaxItems   == 3      \* items of a CallbackMetadata list

Clients == 1..NumClients
Live    == {c \in Clients : c <= NumLive}
Keys    == 1..NumKeys
Tasks   == 1..MaxTasks
Callers == 1..NumCallers

\* --------------------------------------------------------- program constants
StatusPending   == "PENDING"
StatusCompleted == "COMPLETED"
StatusFailed    == "FAILED"
Statuses        == {StatusPending, StatusCompleted, StatusFailed}

MaxRetry   == 3                     \* asynq.MaxRetry(3) at enqueue
maxRetries == 4                     \* webhook attempts in sendWebhook
backoff    == <<0, 1, 5, 15>>       \* minutes slept before attempt n

NULL     == "NULL"              \* a NULL text column
NullId   == 0                   \* a NULL checkout_request_id
EmptyId  == NullId - 1          \* the "" of a callback without CheckoutRequestID
NullTime == "NULL"                 \* a NULL completed_at
NullJson == [null |-> TRUE]     \* a NULL mpesa_metadata
NoRow    == [none |-> TRUE]

\* The checkout id the upstream assigns to the STK Push of call c: the
\* upstream issues one id per accepted request.
CheckoutOf(c) == c
NoSTK         == [res |-> "none", cid |-> NullId]
CheckoutIds   == {CheckoutOf(c) : c \in Clients}

\* Result codes and descriptions the upstream puts in a callback.
ResultCodes == {0, 1, 1032}
ResultDesc(code) ==
    IF code = 0 THEN "The service request is processed successfully."
    ELSE IF code = 1 THEN "The balance is insufficient for the transaction."
    ELSE "Request cancelled by user"

\* CallbackMetadata.Item of a callback: present on success only.
Items(code) ==
    IF code = 0
    THEN << [Name |-> "Amount", Value |-> 100],
            [Name |-> "", Value |-> 0],
            [Name |-> "MpesaReceiptNumber", Value |-> "ABC123"] >>
    ELSE << >>

VARIABLES
    rows,       \* transactions table, committed rows: Clients -> row or NoRow
    call,       \* the InitiatePayment calls, one per client
    task,       \* the callback tasks of the queue and their handler runs
    attempts,   \* webhook_attempts table, per transaction, in insert order
    posts,      \* webhook POSTs received by the tenant, per transaction
    trans,      \* status changes written to each row, in order
    faults,     \* failed store statements and worker crashes so far
    tok,        \* the TokenService: its cache, its lock and the GetToken calls
    http,       \* the requests answered at the HTTP boundary and their status
    proc,       \* the worker process: running, shutting down or terminated
    calc        \* a pure function under evaluation: its input and its result

vars == <<rows, call, task, attempts, posts, trans, faults, tok, http, proc, calc>>

\* ------------------------------------------------------------ pure helpers

\* A state machine that lets a PENDING transaction complete but not fail.
IsValidTransitionCompletedOnly(from, to) ==
    from = StatusPending /\ to = StatusCompleted

\* A state machine that looks at the current status only: whatever is PENDING
\* may move, also to PENDING.
IsValidTransitionFromPending(from, to) ==
    from = StatusPending

\* models.IsValidTransition
IsValidTransition(from, to) ==
    LET validTransitions ==
            [s \in Statuses |->
                IF s = StatusPending THEN {StatusCompleted, StatusFailed} ELSE {}]
    IN  from \in DOMAIN validTransitions /\ to \in validTransitions[from]

\* A parser that keeps the first value of a name.
RECURSIVE ParseMpesaMetadataFirstWins(_)
ParseMpesaMetadataFirstWins(items) ==
    IF items = << >> THEN << >>
    ELSE LET rest == ParseMpesaMetadataFirstWins(Tail(items))
             item == Head(items)
         IN  IF item.Name = "" THEN rest
             ELSE [k \in (DOMAIN rest) \cup {item.Name} |->
                      IF k = item.Name THEN item.Value ELSE rest[k]]

\* mpesa.ParseMpesaMetadata: later items overwrite earlier ones, empty names
\* are skipped.
RECURSIVE ParseMpesaMetadata(_)
ParseMpesaMetadata(items) ==
    IF items = << >> THEN << >>
    ELSE LET n    == Len(items)
             rest == ParseMpesaMetadata(SubSeq(items, 1, n - 1))
             item == items[n]
         IN  IF item.Name = "" THEN rest
             ELSE [k \in (DOMAIN rest) \cup {item.Name} |->
                      IF k = item.Name THEN item.Value ELSE rest[k]]

\* handlers.contains over an error chain (the wrapped messages, outermost
\* first).
contains(err, part) == \E i \in DOMAIN err : err[i] = part

ErrDuplicate == <<"duplicate idempotency key", "SQLSTATE 23505">>
ErrBegin     == <<"failed to begin transaction">>
ErrInsert    == <<"failed to insert transaction">>
ErrToken     == <<"STK Push failed", "failed to get access token">>
ErrUpstream  == <<"STK Push failed", "STK Push error">>
ErrUpdate    == <<"failed to update transaction with checkout ID">>
ErrCommit    == <<"failed to commit transaction">>
NoErr        == << >>

\* Handler.InitiatePayment: the HTTP status for what the service returned.
HttpStatus(resp) ==
    IF resp.err # NoErr
    THEN IF contains(resp.err, "duplicate idempotency key") THEN 409 ELSE 500
    ELSE 201


\* ------------------------------------------------------------- TokenService
\* Times are in seconds.  A token is named by the number of the upstream
\* request that returned it: the upstream hands out a new value each time.

NoToken          == 0        \* the empty string in ts.token or access_token
SafetyMargin     == 300      \* 5 * time.Minute
DefaultExpiresIn == 3599     \* 3599 * time.Second

\* expires_in texts the upstream sends with a token, and what fmt.Sscanf
\* with %d reads from them.
ExpiresInTexts == {"", "120", "360"}
Sscanf(text) ==
    IF text = "120" THEN [ok |-> TRUE, seconds |-> 120]
    ELSE IF text = "360" THEN [ok |-> TRUE, seconds |-> 360]
    ELSE [ok |-> FALSE, seconds |-> 0]

\* refreshToken 118-125: the lifetime taken from the response.
ExpiresIn(text) ==
    IF text # "" /\ Sscanf(text).ok THEN Sscanf(text).seconds
    ELSE DefaultExpiresIn

\* Responses that make refreshToken return an error (lines 104-116).
FailKinds == {"token request failed with status 500",
              "received empty access token"}

\* ---------------------------------------------------------- HTTP boundary
\* An IPv4 address is the tuple of its octets.  A header value is a record:
\* absent (or empty), the text of an address, or text that is no address.

NilIP    == << >>
NoHeader == [kind |-> "absent", ip |-> NilIP]
Junk     == [kind |-> "junk", ip |-> NilIP]
IPText(ip) == [kind |-> "ip", ip |-> ip]

\* net.ParseIP on a header value or on the host part of RemoteAddr.
ParseIP(v) == IF v.kind = "ip" THEN v.ip ELSE NilIP

\* The configured MPESA_SAFARICOM_IPS: one single address and one CIDR range.
SafaricomHost      == <<196, 201, 214, 200>>
SafaricomRangeHost == <<196, 201, 213, 44>>
Outsider           == <<203, 0, 113, 9>>
SafaricomIPs ==
    << [cidr |-> FALSE, ip |-> SafaricomHost, bits |-> 32],
       [cidr |-> TRUE, ip |-> <<196, 201, 213, 0>>, bits |-> 24] >>

\* The part of octet i (1..4) that a mask of `bits' bits keeps.
Masked(o, i, bits) ==
    LET keep == bits - 8 * (i - 1)
    IN  IF keep >= 8 THEN o
        ELSE IF keep <= 0 THEN 0
        ELSE o \div (2 ^ (8 - keep))

\* ipNet.Contains(ip)
Contains(net, ip) ==
    \A i \in 1..4 : Masked(ip[i], i, net.bits) = Masked(net.ip[i], i, net.bits)

\* isIPAllowed (lines 72-101)
isIPAllowed(clientIP, allowedIPs) ==
    IF Len(allowedIPs) = 0 THEN TRUE
    ELSE IF ParseIP(clientIP) = NilIP THEN FALSE
    ELSE \E n \in DOMAIN allowedIPs :
            IF allowedIPs[n].cidr THEN Contains(allowedIPs[n], ParseIP(clientIP))
            ELSE ParseIP(clientIP) = allowedIPs[n].ip

\* getRealIP (lines 52-70): X-Real-IP, else the first entry of
\* X-Forwarded-For, else the host of RemoteAddr.
getRealIP(r) ==
    IF r.xRealIP.kind # "absent" THEN r.xRealIP
    ELSE IF r.xff # << >> THEN r.xff[1]
    ELSE IPText(r.peer)

\* The /callback requests that arrive: peer address, headers and body.
Peers    == {SafaricomHost, SafaricomRangeHost, Outsider}
XRealIPs == {NoHeader, IPText(SafaricomHost), Junk}
XFFs     == {<< >>, <<IPText(SafaricomRangeHost), IPText(Outsider)>>}
Bodies   ==
    {[kind |-> k, cid |-> NullId, code |-> 0] : k \in {"unreadable", "not json"}}
    \cup {[kind |-> "json", cid |-> id, code |-> rc] :
             id \in CheckoutIds \cup {EmptyId}, rc \in ResultCodes}
CallbackRequests ==
    [peer : Peers, xRealIP : XRealIPs, xff : XFFs, body : Bodies]

\* A handler that answers 200 as soon as the body is JSON, whatever the
\* queue says.
MPesaCallbackAnswersFirst(body, queueUp) ==
    IF body.kind = "unreadable" THEN 400
    ELSE IF body.kind = "not json" THEN 400
    ELSE 200

\* Handler.MPesaCallback (handlers.go 104-142): the status it answers with,
\* given whether the queue takes the task.
MPesaCallback(body, queueUp) ==
    IF body.kind = "unreadable" THEN 400
    ELSE IF body.kind = "not json" THEN 400
    ELSE IF ~queueUp THEN 500
    ELSE 200

\* IPFilter in front of the handler (part_003 33-50, database.go 118-123).
CallbackStatus(r, queueUp) ==
    IF ~isIPAllowed(getRealIP(r), SafaricomIPs) THEN 403
    ELSE MPesaCallback(r.body, queueUp)

\* Whether a task is put on the queue: the request passes IPFilter, the
\* handler reaches Enqueue (handlers.go 107-130) and the queue takes the
\* task.
CallbackEnqueues(r, queueUp) ==
    /\ isIPAllowed(getRealIP(r), SafaricomIPs)
    /\ r.body.kind = "json"
    /\ queueUp

\* A phone number is the sequence of its characters.
DigitChars == {"0", "1", "2", "3", "4", "5", "6", "7", "8", "9"}
Phones ==
    { <<"2", "5", "4", "7", "1", "2", "3", "4", "5", "6", "7", "8">>,
      <<"0", "7", "1", "2", "3", "4", "5", "6", "7", "8">>,
      <<"2", "5", "5", "7", "1", "2", "3", "4", "5", "6", "7", "8">>,
      <<"2", "5", "4", "7", "1", "2", "3", "4", "5", "6", "7", "x">> }

\* The validator tags of InitiatePaymentRequest.Phone: required,len=12,numeric
\* (handlers.go 40, 55-58).
ValidPhone(p) ==
    /\ p # << >>
    /\ Len(p) = 12
    /\ \A i \in DOMAIN p : p[i] \in DigitChars

\* The CHECK constraint of transactions.phone: phone ~ '^254[0-9]{9}$'.
PhoneCheck(p) ==
    /\ Len(p) = 12
    /\ p[1] = "2" /\ p[2] = "5" /\ p[3] = "4"
    /\ \A i \in 4..12 : p[i] \in DigitChars

\* The /initiate request of a client: not sent yet.
NoInitiate == [phone |-> << >>, status |-> 0]

\* ------------------------------------------------------------------- state

\* The worker process after its start: no shutdown signal yet.
Running == [state |-> "running", inflight |-> {}]

\* No request has been answered.
NoTraffic == [cb |-> << >>, ini |-> [c \in Clients |-> NoInitiate]]

\* No pure function is under evaluation.
NoCalc == [fn |-> "none", in |-> << >>, done |-> FALSE, out |-> [none |-> TRUE]]

\* TransactionStatus is a string type: the three constants and other texts a
\* caller can convert to it.
StatusTexts == Statuses \cup {"", "pending", "CANCELLED", "REFUNDED", "TIMEOUT"}

NoResp == [err |-> NoErr, txid |-> 0, status |-> NULL]

NewCall == [pc |-> "idle", key |-> 0, stk |-> NoSTK, resp |-> NoResp,
            dbfault |-> FALSE]

\* json.Marshal of a value: the bytes are named by the value they encode.
Marshal(v) == [json |-> v]

\* generateSignature: hex(HMAC-SHA256(secret, payload)); the digest is named
\* by its key and its message (no two of them collide).
generateSignature(payload, secret) == [hmac |-> payload, key |-> secret]

\* The local payloadBytes of sendWebhook before it is set.
NoBytes == Marshal(NoRow)

NewTask == [pc |-> "none", cid |-> 0, code |-> 0, tx |-> 0, cur |-> NULL,
            affected |-> -1, attempt |-> 0, ok |-> FALSE, clock |-> 0,
            retried |-> 0, ret |-> "none", sw |-> "none", runs |-> 0,
            payloadBytes |-> NoBytes,
            signature |-> generateSignature(NoBytes, 0),
            queue |-> "none"]

\* The row an accepted call c has committed.
CommittedRow(c, k) ==
    [key |-> k, checkout |-> CheckoutOf(c), status |-> StatusPending,
     metadata |-> NullJson, error |-> NoErr, completed |-> NullTime]

\* A call c that ran to its end before: accepted and committed under key k.
EarlierCall(c, k) ==
    [pc |-> "done", key |-> k,
     stk |-> [res |-> "accepted", cid |-> CheckoutOf(c)],
     resp |-> [err |-> NoErr, txid |-> c, status |-> StatusPending],
     dbfault |-> FALSE]

\* A GetToken call before it starts.
NewGetToken == [pc |-> "idle", missed |-> FALSE, with |-> {}, req |-> 0,
                res |-> NoToken, err |-> "", at |-> 0]

\* NewTokenService: nothing cached (token "", the zero expiresAt), the lock
\* free; no request has been answered, no GetToken call made, the clock at 0.
NewTokenService ==
    [now |-> 0, token |-> NoToken, expiresAt |-> 0, mu |-> 0, reqs |-> << >>,
     gt |-> [c \in Callers |-> NewGetToken]]

\* Nothing has happened yet.
InitEmpty ==
    /\ rows     = [c \in Clients |-> NoRow]
    /\ call     = [c \in Clients |-> NewCall]
    /\ task     = [t \in Tasks |-> NewTask]
    /\ attempts = [c \in Clients |-> << >>]
    /\ posts    = [c \in Clients |-> << >>]
    /\ trans    = [c \in Clients |-> << >>]
    /\ faults   = 0
    /\ tok      = NewTokenService
    /\ http     = NoTraffic
    /\ proc     = Running
    /\ calc     = NoCalc

\* The calls that are not live have run before and left their PENDING rows.
Init ==
    /\ rows     = [c \in Clients |->
                      IF c \in Live THEN NoRow ELSE CommittedRow(c, c)]
    /\ call     = [c \in Clients |->
                      IF c \in Live THEN NewCall ELSE EarlierCall(c, c)]
    /\ task     = [t \in Tasks |-> NewTask]
    /\ attempts = [c \in Clients |-> << >>]
    /\ posts    = [c \in Clients |-> << >>]
    /\ trans    = [c \in Clients |-> << >>]
    /\ faults   = 0
    /\ tok      = NewTokenService
    /\ http     = NoTraffic
    /\ proc     = Running
    /\ calc     = NoCalc

\* One more fault, within the budget.
Fault == faults < MaxFaults /\ faults' = faults + 1

\* ------------------------------------------------- Service.InitiatePayment

\* A store without the UNIQUE constraint on idempotency_key: no INSERT is
\* ever refused (C3 is checked against it).
DuplicateKeyNever(k) == FALSE

\* The UNIQUE constraint on transactions.idempotency_key, against the
\* committed rows.
DuplicateKey(k) == \E r \in Clients : rows[r] # NoRow /\ rows[r].key = k

\* An INSERT of a key that another open store transaction has inserted waits
\* for that transaction to commit or roll back.
KeyLocked(c, k) ==
    \E d \in Clients \ {c} :
        call[d].pc \in {"inserted", "called"} /\ call[d].key = k

Return(c, k, resp, fault) ==
    call' = [call EXCEPT ![c] = [@ EXCEPT !.pc = "done", !.key = k,
                                          !.resp = resp, !.dbfault = fault]]

\* Begin, INSERT ... RETURNING id (service.go 96-136).
IP_Insert(c) ==
    \E k \in Keys :
        /\ call[c].pc = "idle"
        /\ ~KeyLocked(c, k)
        /\ IF DuplicateKey(k)
           THEN Return(c, k, [NoResp EXCEPT !.err = ErrDuplicate], FALSE)
           ELSE call' = [call EXCEPT ![c] = [@ EXCEPT !.pc = "inserted",
                                                      !.key = k]]
        /\ UNCHANGED <<rows, task, attempts, posts, trans, faults, tok, http, proc, calc>>

\* Handler.InitiatePayment from the request on (handlers.go 46-102) with the
\* first statements of the service: a request that fails validation is
\* answered 400; any other goes to Service.InitiatePayment, whose INSERT is
\* refused by the CHECK on phone, refused as a duplicate, or succeeds.
HI_Post(c) ==
    \E p \in Phones, k \in Keys :
        /\ call[c].pc = "idle"
        /\ http.ini[c] = NoInitiate
        /\ IF ~ValidPhone(p)
           THEN /\ http' = [http EXCEPT !.ini[c] = [phone |-> p, status |-> 400]]
                /\ UNCHANGED call
           ELSE /\ http' = [http EXCEPT !.ini[c] = [phone |-> p, status |-> 0]]
                /\ IF ~PhoneCheck(p)
                   THEN Return(c, k, [NoResp EXCEPT !.err = ErrInsert], FALSE)
                   ELSE /\ ~KeyLocked(c, k)
                        /\ IF DuplicateKey(k)
                           THEN Return(c, k, [NoResp EXCEPT !.err = ErrDuplicate],
                                       FALSE)
                           ELSE call' = [call EXCEPT ![c] =
                                            [@ EXCEPT !.pc = "inserted", !.key = k]]
        /\ UNCHANGED <<rows, task, attempts, posts, trans, faults, tok, proc, calc>>

\* Begin or the INSERT fails for another reason than the unique constraint.
IP_InsertFail(c) ==
    \E k \in Keys, e \in {ErrBegin, ErrInsert} :
        /\ call[c].pc = "idle"
        /\ ~KeyLocked(c, k)
        /\ ~DuplicateKey(k)
        /\ Return(c, k, [NoResp EXCEPT !.err = e], TRUE)
        /\ Fault
        /\ UNCHANGED <<rows, task, attempts, posts, trans, tok, http, proc, calc>>

\* callSTKPush (service.go 139, 170-237): the token fetch fails, the upstream
\* call fails or is rejected, or the upstream accepts and returns its ids.
STKOutcomes(c) ==
    { [res |-> "token_err", cid |-> NullId],
      [res |-> "upstream_err", cid |-> NullId],
      [res |-> "accepted", cid |-> CheckoutOf(c)] }

IP_CallSTKPush(c) ==
    \E o \in STKOutcomes(c) :
        /\ call[c].pc = "inserted"
        /\ call' = [call EXCEPT ![c] = [@ EXCEPT !.pc = "called", !.stk = o]]
        /\ UNCHANGED <<rows, task, attempts, posts, trans, faults, tok, http, proc, calc>>

\* callSTKPush with an upstream that is free in the CheckoutRequestID it
\* returns: service.go 236 passes on whatever the response holds.
IP_CallSTKPushAnyId(c) ==
    \E o \in STKOutcomes(c) \cup
             {[res |-> "accepted", cid |-> id] : id \in CheckoutIds} :
        /\ call[c].pc = "inserted"
        /\ call' = [call EXCEPT ![c] = [@ EXCEPT !.pc = "called", !.stk = o]]
        /\ UNCHANGED <<rows, task, attempts, posts, trans, faults, tok, http, proc, calc>>

STKError(o) == IF o.res = "token_err" THEN ErrToken ELSE ErrUpstream

InsertedRow(c) ==
    [key |-> call[c].key, checkout |-> NullId, status |-> StatusPending,
     metadata |-> NullJson, error |-> NoErr, completed |-> NullTime]

\* What InitiatePayment returns once the upstream accepted and the store
\* transaction committed (service.go 164-167).
AcceptedResp(c) == [NoResp EXCEPT !.txid = c, !.status = StatusPending]

\* A service that swallows the callSTKPush error and answers as if the push
\* had been accepted (C2 is checked against it).
STKFailedRespAsPending(c) == AcceptedResp(c)

\* What InitiatePayment returns after a failed callSTKPush (service.go 145).
STKFailedResp(c) == [NoResp EXCEPT !.err = STKError(call[c].stk)]

\* UPDATE ... SET checkout_request_id, Commit, return (service.go 148-167).
IP_Commit(c) ==
    /\ call[c].pc = "called"
    /\ call[c].stk.res = "accepted"
    /\ rows' = [rows EXCEPT ![c] =
                   [InsertedRow(c) EXCEPT !.checkout = call[c].stk.cid]]
    /\ Return(c, call[c].key, AcceptedResp(c), FALSE)
    /\ UNCHANGED <<task, attempts, posts, trans, faults, tok, http, proc, calc>>

\* A store that reports a failed Commit and keeps the row all the same.
IP_CommitFailKeepsRow(c) ==
    \E e \in {ErrUpdate, ErrCommit} :
        /\ call[c].pc = "called"
        /\ call[c].stk.res = "accepted"
        /\ rows' = [rows EXCEPT ![c] =
                       [InsertedRow(c) EXCEPT !.checkout = call[c].stk.cid]]
        /\ Return(c, call[c].key, [NoResp EXCEPT !.err = e], TRUE)
        /\ Fault
        /\ UNCHANGED <<task, attempts, posts, trans, tok, http, proc, calc>>

\* The UPDATE or the Commit fails: the deferred Rollback drops the row
\* (service.go 103, 155-162).
IP_CommitFail(c) ==
    \E e \in {ErrUpdate, ErrCommit} :
        /\ call[c].pc = "called"
        /\ call[c].stk.res = "accepted"
        /\ Return(c, call[c].key, [NoResp EXCEPT !.err = e], TRUE)
        /\ Fault
        /\ UNCHANGED <<rows, task, attempts, posts, trans, tok, http, proc, calc>>

\* A service that returns the callSTKPush error without committing, so that
\* the deferred Rollback drops the row (C4 is checked against it).
IP_ErrorRollback(c) ==
    /\ call[c].pc = "called"
    /\ call[c].stk.res # "accepted"
    /\ Return(c, call[c].key, STKFailedResp(c), FALSE)
    /\ UNCHANGED <<rows, task, attempts, posts, trans, faults, tok, http, proc, calc>>

\* A service that stores a checkout id on the row of a failed push.
IP_ErrorCommitStoresId(c) ==
    /\ call[c].pc = "called"
    /\ call[c].stk.res # "accepted"
    /\ rows' = [rows EXCEPT ![c] =
                   [InsertedRow(c) EXCEPT !.error = Tail(STKError(call[c].stk)),
                                          !.checkout = CheckoutOf(c)]]
    /\ Return(c, call[c].key, STKFailedResp(c), FALSE)
    /\ UNCHANGED <<task, attempts, posts, trans, faults, tok, http, proc, calc>>

\* callSTKPush failed: UPDATE ... SET error_message, Commit, return the error
\* (service.go 140-146).
IP_ErrorCommit(c) ==
    /\ call[c].pc = "called"
    /\ call[c].stk.res # "accepted"
    /\ rows' = [rows EXCEPT ![c] =
                   [InsertedRow(c) EXCEPT !.error = Tail(STKError(call[c].stk))]]
    /\ Return(c, call[c].key, STKFailedResp(c), FALSE)
    /\ UNCHANGED <<task, attempts, posts, trans, faults, tok, http, proc, calc>>

\* The same path when its Exec or Commit fails: both errors are dropped
\* (service.go 143-144) and the open store transaction is rolled back.
IP_ErrorCommitFail(c) ==
    /\ call[c].pc = "called"
    /\ call[c].stk.res # "accepted"
    /\ Return(c, call[c].key, STKFailedResp(c), TRUE)
    /\ Fault
    /\ UNCHANGED <<rows, task, attempts, posts, trans, tok, http, proc, calc>>

\* ------------------------------------------------ Processor.ProcessCallback

\* The checkout ids the upstream has handed out so far.
IssuedIds == {call[c].stk.cid : c \in {d \in Clients : call[d].stk.res = "accepted"}}

\* The upstream (through POST /callback) enqueues a callback task for an id
\* it has issued; slots are filled in order.
Enqueue(t) ==
    \E cid \in CheckoutIds, code \in ResultCodes :
        /\ task[t].pc = "none"
        /\ cid \in IssuedIds
        /\ IF t = 1 THEN TRUE ELSE task[t - 1].pc # "none"
        /\ task' = [task EXCEPT ![t] = [@ EXCEPT !.pc = "queued", !.cid = cid,
                                                  !.code = code,
                                                  !.queue = "default"]]
        /\ UNCHANGED <<rows, call, attempts, posts, trans, faults, tok, http, proc, calc>>

\* POST /callback takes any body that is JSON and enqueues it: the task may
\* carry any checkout id, issued or not, or none at all.
EnqueueAny(t) ==
    \E cid \in CheckoutIds \cup {EmptyId}, code \in ResultCodes :
        /\ task[t].pc = "none"
        /\ IF t = 1 THEN TRUE ELSE task[t - 1].pc # "none"
        /\ task' = [task EXCEPT ![t] = [@ EXCEPT !.pc = "queued", !.cid = cid,
                                                  !.code = code,
                                                  !.queue = "default"]]
        /\ UNCHANGED <<rows, call, attempts, posts, trans, faults, tok, http, proc, calc>>

\* A POST /callback request goes through IPFilter and MPesaCallback: it is
\* answered 403, 400 or 500 and leaves nothing behind, or it is answered 200
\* and its body is in the queue as a task.  The log keeps the peer, whether
\* the address was taken from a header, and the answer.
CB_Post ==
    \E r \in CallbackRequests, queueUp \in BOOLEAN :
        LET status == CallbackStatus(r, queueUp)
            enq    == CallbackEnqueues(r, queueUp)
            free   == {t \in Tasks : task[t].pc = "none"}
            slot   == CHOOSE t \in free : \A u \in free : t <= u
        IN  /\ Len(http.cb) < MaxRequests
            /\ free # {}
            /\ http' = [http EXCEPT !.cb =
                           Append(@, [peer |-> r.peer,
                                      byHeader |-> getRealIP(r) # IPText(r.peer),
                                      body |-> r.body.kind,
                                      sent |-> r.body,
                                      status |-> status,
                                      slot |-> IF enq THEN slot ELSE 0])]
            /\ task' = IF enq
                       THEN [task EXCEPT ![slot] =
                                [@ EXCEPT !.pc = "queued", !.cid = r.body.cid,
                                          !.code = r.body.code,
                                          !.queue = "default"]]
                       ELSE task
            /\ UNCHANGED <<rows, call, attempts, posts, trans, faults, tok, proc, calc>>

\* The handler returns nil: the task is done.
TaskDone(tk) == [tk EXCEPT !.pc = "done", !.ret = "nil"]

\* A queue that archives a task at its first error.
TaskErrorNeverRetried(tk, e) == [tk EXCEPT !.pc = "archived", !.ret = e]

\* The handler returns an error: the queue runs the task again until it has
\* been retried MaxRetry times, then archives it.
TaskError(tk, e) ==
    IF tk.retried < MaxRetry
    THEN [tk EXCEPT !.pc = "queued", !.ret = e, !.retried = @ + 1]
    ELSE [tk EXCEPT !.pc = "archived", !.ret = e]

\* A handler that drops the result description (C7 is checked against it).
ErrorMsgNone(code) == NoErr

\* Lines 82-93: the target status and error message of a result code.
NewStatus(code) == IF code = 0 THEN StatusCompleted ELSE StatusFailed
ErrorMsg(code) == IF code = 0 THEN NoErr ELSE <<ResultDesc(code)>>

\* getTransactionByCheckoutID: the committed rows carrying the checkout id.
RowsByCheckoutID(cid) ==
    {r \in Clients : rows[r] # NoRow /\ rows[r].checkout = cid}

\* A handler without the idempotency check of lines 75-80 (C5 is checked
\* against it).
DecideNoSkip(cur, code) ==
    IF ~IsValidTransition(cur, NewStatus(code)) THEN "invalid" ELSE "apply"

\* What the handler does with the status it read (lines 75-98): "skip" for a
\* row that is not PENDING, "invalid" for a refused transition, else "apply".
Decide(cur, code) ==
    IF cur # StatusPending THEN "skip"
    ELSE IF ~IsValidTransition(cur, NewStatus(code)) THEN "invalid"
    ELSE "apply"

\* A worker starts the handler on a task: the locals of an earlier run are
\* gone, the run is counted.
Started(tk) ==
    [tk EXCEPT !.tx = 0, !.cur = NULL, !.affected = -1, !.attempt = 0,
               !.ok = FALSE, !.clock = 0, !.sw = "none", !.runs = @ + 1,
               !.payloadBytes = NoBytes,
               !.signature = generateSignature(NoBytes, 0)]

\* A worker takes the task, decodes it, reads the transaction and decides
\* (lines 55-105).
PC_Find(t) ==
    /\ task[t].pc = "queued"
    /\ LET tk == Started(task[t])
       IN  IF tk.cid = EmptyId
           THEN task' = [task EXCEPT ![t] =
                            TaskError(tk, "missing CheckoutRequestID in callback")]
           ELSE IF RowsByCheckoutID(tk.cid) = {}
           THEN task' = [task EXCEPT ![t] =
                            TaskError(tk, "failed to find transaction")]
           ELSE \E r \in RowsByCheckoutID(tk.cid) :
                  LET seen == [tk EXCEPT !.tx = r, !.cur = rows[r].status]
                      d    == Decide(seen.cur, seen.code)
                  IN  task' = [task EXCEPT ![t] =
                         CASE d = "skip"    -> TaskDone(seen)
                           [] d = "invalid" ->
                                TaskError(seen, "invalid state transition")
                           [] OTHER         -> [seen EXCEPT !.pc = "update"]]
    /\ UNCHANGED <<rows, call, attempts, posts, trans, faults, tok, http, proc, calc>>

\* The SELECT fails in the store: the handler returns the error (lines 70-73).
PC_FindFail(t) ==
    /\ task[t].pc = "queued"
    /\ Fault
    /\ task' = [task EXCEPT ![t] =
                  TaskError(Started(@), "failed to find transaction")]
    /\ UNCHANGED <<rows, call, attempts, posts, trans, tok, http, proc, calc>>

\* An UPDATE whose WHERE clause lacks AND status = 'PENDING' (C1 is checked
\* against it).
UpdateMatchesAnyStatus(cid) ==
    {r \in Clients : rows[r] # NoRow /\ rows[r].checkout = cid}

\* The WHERE clause of the conditional UPDATE (lines 108-115).
UpdateMatches(cid) ==
    {r \in Clients : rows[r] # NoRow /\ rows[r].checkout = cid
                                     /\ rows[r].status = StatusPending}

\* An UPDATE without the completed_at assignment.
UpdatedRowKeepsCompletedAt(row, code) ==
    [row EXCEPT !.status   = NewStatus(code),
                !.metadata = [json |-> ParseMpesaMetadata(Items(code))],
                !.error    = ErrorMsg(code)]

\* The row as the UPDATE rewrites it.
UpdatedRow(row, code) ==
    [row EXCEPT !.status    = NewStatus(code),
                !.metadata  = [json |-> ParseMpesaMetadata(Items(code))],
                !.error     = ErrorMsg(code),
                !.completed = IF NewStatus(code) \in {StatusCompleted, StatusFailed}
                              THEN "NOW()" ELSE @]

\* The map sendWebhook builds (lines 171-178); amount and phone are those of
\* the transaction that transaction_id names.
WebhookPayload(tk, now) ==
    [transaction_id |-> tk.tx,
     status         |-> NewStatus(tk.code),
     metadata       |-> ParseMpesaMetadata(Items(tk.code)),
     timestamp      |-> now]

\* sendWebhook up to its loop (lines 170-191): the payload is marshalled and
\* signed with the internal transaction id, attemptNumber is 1.
EnterSendWebhook(tk) ==
    LET bytes == Marshal(WebhookPayload(tk, tk.clock))
    IN  [tk EXCEPT !.pc = "deliver", !.attempt = 1,
                   !.payloadBytes = bytes,
                   !.signature = generateSignature(bytes, tk.tx)]

\* A handler that treats zero rows affected as an error (C6 is checked
\* against it).
AfterUpdateZeroFails(tk, n) ==
    IF n = 0 THEN TaskError([tk EXCEPT !.affected = 0], "no rows affected")
    ELSE EnterSendWebhook([tk EXCEPT !.affected = n])

\* The handler after the UPDATE (lines 122-131): zero rows affected ends the
\* task with nil, otherwise the delivery loop starts with attempt 1.
AfterUpdate(tk, n) ==
    IF n = 0 THEN TaskDone([tk EXCEPT !.affected = 0])
    ELSE EnterSendWebhook([tk EXCEPT !.affected = n])

\* The conditional UPDATE and the rowsAffected test (lines 107-128).
PC_Update(t) ==
    /\ task[t].pc = "update"
    /\ LET hit == UpdateMatches(task[t].cid)
       IN  /\ rows' = [r \in Clients |->
                          IF r \in hit THEN UpdatedRow(rows[r], task[t].code)
                          ELSE rows[r]]
           /\ trans' = [r \in Clients |->
                          IF r \in hit
                          THEN Append(trans[r], <<rows[r].status,
                                                  NewStatus(task[t].code)>>)
                          ELSE trans[r]]
           /\ task' = [task EXCEPT ![t] = AfterUpdate(@, Cardinality(hit))]
    /\ UNCHANGED <<call, attempts, posts, faults, tok, http, proc, calc>>

\* The UPDATE fails in the store: the handler returns the error
\* (lines 117-120).
PC_UpdateFail(t) ==
    /\ task[t].pc = "update"
    /\ Fault
    /\ task' = [task EXCEPT ![t] = TaskError(@, "failed to update transaction")]
    /\ UNCHANGED <<rows, call, attempts, posts, trans, tok, http, proc, calc>>

\* ----------------------------------------------------- Processor.sendWebhook

\* A loop that indexes backoff one slot too low (C10 is checked against it).
SleepForOneSlotLow(attemptNumber) ==
    IF attemptNumber > 1 THEN backoff[attemptNumber - 1] ELSE 0

\* time.Sleep(backoff[attemptNumber-1]) before attempt attemptNumber > 1
\* (lines 194-197); the slice is 0-based, the tuple 1-based.
SleepFor(attemptNumber) == IF attemptNumber > 1 THEN backoff[attemptNumber] ELSE 0

\* A deliverWebhook that marshals and signs the payload again at the time of
\* each attempt.
deliverWebhookStampsAgain(tk) ==
    LET bytes == Marshal(WebhookPayload(tk, tk.clock + SleepFor(tk.attempt)))
    IN  [body |-> bytes, signature |-> generateSignature(bytes, tk.tx)]

\* deliverWebhook: the request it builds (lines 219-225), with the payload
\* as body and the signature in the X-Signature header.
deliverWebhook(tk) == [body |-> tk.payloadBytes, signature |-> tk.signature]

\* One turn of the loop up to the POST: the backoff sleep, then
\* deliverWebhook, answered 2xx or not (lines 193-199, 215-239).
SW_Deliver(t) ==
    \E ok \in BOOLEAN :
        /\ task[t].pc = "deliver"
        /\ LET at == task[t].clock + SleepFor(task[t].attempt)
           IN  /\ posts' = [posts EXCEPT ![task[t].tx] =
                      Append(@, [n |-> task[t].attempt,
                                 status |-> NewStatus(task[t].code),
                                 ok |-> ok, at |-> at,
                                 body |-> deliverWebhook(task[t]).body,
                                 signature |->
                                     deliverWebhook(task[t]).signature])]
               /\ task' = [task EXCEPT ![t] = [@ EXCEPT !.pc = "record",
                                                        !.ok = ok, !.clock = at]]
        /\ UNCHANGED <<rows, call, attempts, trans, faults, tok, http, proc, calc>>

\* A handler that returns the sendWebhook error to the queue (C9 is checked
\* against it).
AfterWebhookFailureReturnsError(tk) == TaskError(tk, "webhook delivery failed")

\* What sendWebhook returns once every attempt has failed (line 212).
ErrWebhook == "webhook delivery failed after 4 attempts"

\* What ProcessCallback returns when sendWebhook returned an error: the
\* failure is logged and the task ends with nil (lines 131-136).
AfterWebhookFailure(tk) == TaskDone(tk)

\* A loop that gives up one attempt early (C11 is checked against it).
AfterRecordOneAttemptShort(tk) ==
    IF tk.ok THEN TaskDone([tk EXCEPT !.sw = "nil"])
    ELSE IF tk.attempt + 1 < maxRetries
         THEN [tk EXCEPT !.attempt = @ + 1, !.pc = "deliver"]
         ELSE AfterWebhookFailure([tk EXCEPT !.attempt = @ + 1,
                                             !.sw = ErrWebhook])

\* The loop after an attempt was recorded (lines 204-212).
AfterRecord(tk) ==
    IF tk.ok THEN TaskDone([tk EXCEPT !.sw = "nil"])
    ELSE IF tk.attempt + 1 <= maxRetries
         THEN [tk EXCEPT !.attempt = @ + 1, !.pc = "deliver"]
         ELSE AfterWebhookFailure([tk EXCEPT !.attempt = @ + 1,
                                             !.sw = ErrWebhook])

\* recordWebhookAttempt: the audit INSERT (lines 202, 241-267).
SW_Record(t) ==
    /\ task[t].pc = "record"
    /\ attempts' = [attempts EXCEPT ![task[t].tx] =
           Append(@, [n |-> task[t].attempt, success |-> task[t].ok,
                      at |-> task[t].clock])]
    /\ task' = [task EXCEPT ![t] = AfterRecord(@)]
    /\ UNCHANGED <<rows, call, posts, trans, faults, tok, http, proc, calc>>

\* The audit INSERT fails: the error is logged and the loop goes on
\* (lines 264-266).
SW_RecordFail(t) ==
    /\ task[t].pc = "record"
    /\ task' = [task EXCEPT ![t] = AfterRecord(@)]
    /\ Fault
    /\ UNCHANGED <<rows, call, attempts, posts, trans, tok, http, proc, calc>>

\* The worker dies in the middle of a task: when the lease of the task
\* expires the queue counts a failed run and delivers the task again.
Crash(t) ==
    /\ task[t].pc \in {"update", "deliver", "record"}
    /\ Fault
    /\ task' = [task EXCEPT ![t] = TaskError(@, "crashed")]
    /\ UNCHANGED <<rows, call, attempts, posts, trans, tok, http, proc, calc>>

\* ------------------------------------------------------- GetToken actions

\* The test of both paths: time.Now().Before(ts.expiresAt) && ts.token != "".
CacheValid(ts) == ts.now < ts.expiresAt /\ ts.token # NoToken

\* A GetToken call that returns token tk at the present time.
Returns(g, ts, tk) == [g EXCEPT !.pc = "done", !.res = tk, !.at = ts.now]

\* A GetToken call that returns the error e.
Fails(g, ts, e) == [g EXCEPT !.pc = "done", !.err = e, !.at = ts.now]

\* GetToken's fast path under the read lock: a valid cached token is
\* returned; otherwise the call goes on to refreshTokenSafe.  `with' keeps
\* the calls that were already on the slow path at that moment.
GT_FastPath(c) ==
    /\ tok.gt[c].pc = "idle"
    /\ tok.mu = 0
    /\ tok' = [tok EXCEPT !.gt[c] =
                  IF CacheValid(tok) THEN Returns(@, tok, tok.token)
                  ELSE [@ EXCEPT !.pc = "wait", !.missed = TRUE,
                                 !.with = {d \in Callers :
                                            tok.gt[d].pc \in {"wait", "refresh"}}]]
    /\ UNCHANGED <<rows, call, task, attempts, posts, trans, faults, http, proc, calc>>

\* A refreshTokenSafe that does not take the lock.
GT_LockNoMutex(c) ==
    /\ tok.gt[c].pc = "wait"
    /\ tok' = IF CacheValid(tok)
              THEN [tok EXCEPT !.gt[c] = Returns(@, tok, tok.token)]
              ELSE [tok EXCEPT !.mu = c,
                               !.gt[c] = [@ EXCEPT !.pc = "refresh",
                                                   !.req = Len(tok.reqs) + 1]]
    /\ UNCHANGED <<rows, call, task, attempts, posts, trans, faults, http, proc, calc>>

\* A refreshTokenSafe without the second test of the cache: whoever gets the
\* lock sends a request.
GT_LockNoDoubleCheck(c) ==
    /\ tok.gt[c].pc = "wait"
    /\ tok.mu = 0
    /\ tok' = [tok EXCEPT !.mu = c,
                          !.gt[c] = [@ EXCEPT !.pc = "refresh",
                                              !.req = Len(tok.reqs) + 1]]
    /\ UNCHANGED <<rows, call, task, attempts, posts, trans, faults, http, proc, calc>>

\* refreshTokenSafe takes the write lock and tests the cache again: a token
\* that became valid meanwhile is returned, otherwise the call keeps the lock
\* and sends its request to the upstream.
GT_Lock(c) ==
    /\ tok.gt[c].pc = "wait"
    /\ tok.mu = 0
    /\ tok' = IF CacheValid(tok)
              THEN [tok EXCEPT !.gt[c] = Returns(@, tok, tok.token)]
              ELSE [tok EXCEPT !.mu = c,
                               !.gt[c] = [@ EXCEPT !.pc = "refresh",
                                                   !.req = Len(tok.reqs) + 1]]
    /\ UNCHANGED <<rows, call, task, attempts, posts, trans, faults, http, proc, calc>>

\* The cache after a request that produced no token.
CacheAfterFailureStoresEmpty(ts) ==
    [token |-> NoToken, expiresAt |-> ts.now + (DefaultExpiresIn - SafetyMargin)]

CacheAfterFailure(ts) == [token |-> ts.token, expiresAt |-> ts.expiresAt]

\* The cache after a response with a token and the expires_in text.
CacheAfterSuccess(ts, tk, text) ==
    [token |-> tk, expiresAt |-> ts.now + (ExpiresIn(text) - SafetyMargin)]

\* The upstream answers with a token: refreshToken stores it with its expiry
\* and refreshTokenSafe returns ts.token.
GT_RefreshOk(c) ==
    /\ tok.gt[c].pc = "refresh"
    /\ \E text \in ExpiresInTexts :
          LET tk    == tok.gt[c].req
              cache == CacheAfterSuccess(tok, tk, text)
          IN  tok' = [tok EXCEPT
                         !.token = cache.token,
                         !.expiresAt = cache.expiresAt,
                         !.mu = 0,
                         !.reqs = Append(@, [by |-> c, at |-> tok.now, ok |-> TRUE,
                                             life |-> ExpiresIn(text)]),
                         !.gt[c] = Returns(@, tok, cache.token)]
    /\ UNCHANGED <<rows, call, task, attempts, posts, trans, faults, http, proc, calc>>

\* The upstream answers with a status other than 200 or with an empty
\* access_token: refreshToken returns the error before it stores anything.
GT_RefreshFail(c) ==
    /\ tok.gt[c].pc = "refresh"
    /\ \E e \in FailKinds :
          LET cache == CacheAfterFailure(tok)
          IN  tok' = [tok EXCEPT
                         !.token = cache.token,
                         !.expiresAt = cache.expiresAt,
                         !.mu = 0,
                         !.reqs = Append(@, [by |-> c, at |-> tok.now, ok |-> FALSE,
                                             life |-> 0]),
                         !.gt[c] = Fails(@, tok, e)]
    /\ UNCHANGED <<rows, call, task, attempts, posts, trans, faults, http, proc, calc>>

\* Time passes.
GT_Tick ==
    /\ tok.now < MaxTicks * TickSeconds
    /\ tok' = [tok EXCEPT !.now = @ + TickSeconds]
    /\ UNCHANGED <<rows, call, task, attempts, posts, trans, faults, http, proc, calc>>

\* ------------------------------------------------------------- the amount
\* An amount text is the sequence of its characters; a decimal.Decimal is
\* coef * 10^(-scale) with an integer coef.
Digits == <<"0", "1", "2", "3", "4", "5", "6", "7", "8", "9">>

IsDigits(s) == s # << >> /\ \A i \in DOMAIN s : s[i] \in DigitChars

RECURSIVE Atoi(_)
Atoi(s) ==
    IF s = << >> THEN 0
    ELSE LET last == CHOOSE i \in DOMAIN Digits : Digits[i] = s[Len(s)]
         IN  10 * Atoi(SubSeq(s, 1, Len(s) - 1)) + (last - 1)

RECURSIVE Itoa(_)
Itoa(n) == IF n < 10 THEN <<Digits[n + 1]>>
           ELSE Itoa(n \div 10) \o <<Digits[(n % 10) + 1]>>

RECURSIVE Pow10(_)
Pow10(n) == IF n = 0 THEN 1 ELSE 10 * Pow10(n - 1)

\* The validator tag "numeric": ^[-+]?[0-9]+(?:\.[0-9]+)?$
IsNumeric(s) ==
    LET u    == IF s # << >> /\ s[1] \in {"-", "+"} THEN Tail(s) ELSE s
        dots == {i \in DOMAIN u : u[i] = "."}
    IN  IF dots = {} THEN IsDigits(u)
        ELSE \E i \in dots : /\ IsDigits(SubSeq(u, 1, i - 1))
                              /\ IsDigits(SubSeq(u, i + 1, Len(u)))

\* decimal.NewFromString on a text the validator has passed: the sign, the
\* digits before and after the decimal point.
NewFromString(s) ==
    LET u    == IF s # << >> /\ s[1] \in {"-", "+"} THEN Tail(s) ELSE s
        dots == {i \in DOMAIN u : u[i] = "."}
        dot  == IF dots = {} THEN Len(u) + 1 ELSE CHOOSE i \in dots : TRUE
        int  == SubSeq(u, 1, dot - 1)
        frac == SubSeq(u, dot + 1, Len(u))
        sign == IF s[1] = "-" THEN 0 - 1 ELSE 1
    IN  [coef |-> sign * Atoi(int \o frac), scale |-> Len(frac)]

\* Decimal.StringFixed(0): the value rounded to no decimal places, halves
\* away from zero, as a text.
StringFixed0(d) ==
    LET abs     == IF d.coef < 0 THEN 0 - d.coef ELSE d.coef
        rounded == IF d.scale = 0 THEN abs
                   ELSE (abs + (Pow10(d.scale) \div 2)) \div Pow10(d.scale)
    IN  IF d.coef < 0 /\ rounded # 0 THEN <<"-">> \o Itoa(rounded)
        ELSE Itoa(rounded)

\* Handler.InitiatePayment, the amount (handlers.go 39, 54-70): the status
\* it answers with at once, or 0 and the decimal it hands to the service.
HandlerAmount(text) ==
    IF text = << >> \/ ~IsNumeric(text)
    THEN [status |-> 400, amount |-> [coef |-> 0, scale |-> 0]]
    ELSE IF NewFromString(text).coef <= 0
    THEN [status |-> 400, amount |-> [coef |-> 0, scale |-> 0]]
    ELSE [status |-> 0, amount |-> NewFromString(text)]

\* callSTKPush, the Amount field of the request (service.go 190); nothing is
\* sent for a request the handler has refused.
STKAmount(text) ==
    LET h == HandlerAmount(text)
    IN  IF h.status = 400 THEN [status |-> 400, sent |-> << >>]
        ELSE [status |-> 0, sent |-> StringFixed0(h.amount)]

\* Amount texts of up to MaxAmountLen characters.
AmountTexts ==
    UNION {[1..n -> {"0", "1", "4", "5", ".", "-", "x"}] : n \in 0..MaxAmountLen}

\* --------------------------------------------------- pure functions applied

\* CallbackMetadata.Item lists of up to MaxItems items (mpesa.Item).
ItemLists ==
    UNION {[1..n -> [Name : {"", "Amount", "MpesaReceiptNumber"},
                     Value : {100, 200}]] : n \in 0..MaxItems}

\* The calls of the pure functions that are evaluated.
CalcInputs ==
    LET CalcOf(fn, in) == [NoCalc EXCEPT !.fn = fn, !.in = in]
    IN  {CalcOf("IsValidTransition", <<from, to>>) :
            from \in StatusTexts, to \in StatusTexts}
        \cup {CalcOf("STKAmount", text) : text \in AmountTexts}
        \cup {CalcOf("ParseMpesaMetadata", items) : items \in ItemLists}

\* The program is idle and one call of a pure function is about to be made.
InitCalc ==
    /\ rows     = [c \in Clients |-> NoRow]
    /\ call     = [c \in Clients |-> NewCall]
    /\ task     = [t \in Tasks |-> NewTask]
    /\ attempts = [c \in Clients |-> << >>]
    /\ posts    = [c \in Clients |-> << >>]
    /\ trans    = [c \in Clients |-> << >>]
    /\ faults   = 0
    /\ tok      = NewTokenService
    /\ http     = NoTraffic
    /\ proc     = Running
    /\ calc     \in CalcInputs

\* The call returns what the function computes.
Evaluated(out) ==
    /\ ~calc.done
    /\ calc' = [calc EXCEPT !.done = TRUE, !.out = out]
    /\ UNCHANGED <<rows, call, task, attempts, posts, trans, faults, tok, http, proc>>

\* models.IsValidTransition(from, to)
Call_IsValidTransition ==
    /\ calc.fn = "IsValidTransition"
    /\ Evaluated(IsValidTransition(calc.in[1], calc.in[2]))

\* The amount of a POST /initiate on its way into the STK Push request.
Call_STKAmount ==
    /\ calc.fn = "STKAmount"
    /\ Evaluated(STKAmount(calc.in))

\* mpesa.ParseMpesaMetadata(items)
Call_ParseMpesaMetadata ==
    /\ calc.fn = "ParseMpesaMetadata"
    /\ Evaluated(ParseMpesaMetadata(calc.in))

\* ------------------------------------------------------- process shutdown

InFlight(t) == task[t].pc \in {"update", "deliver", "record"}

\* A handler that is inside time.Sleep(backoff[...]) of sendWebhook
\* (part_001 194-197): a wait of 1, 5 or 15 minutes that no signal and no
\* context ends.
InBackoff(t) == task[t].pc = "deliver" /\ task[t].attempt > 1

\* The consumer takes a task only while the server runs; a handler that has
\* started goes on as long as the process lives.
SD_Find(t)    == proc.state = "running" /\ PC_Find(t)
SD_Update(t)  == proc.state # "terminated" /\ PC_Update(t)
SD_Deliver(t) == proc.state # "terminated" /\ SW_Deliver(t)
SD_Record(t)  == proc.state # "terminated" /\ SW_Record(t)

\* SIGINT or SIGTERM arrives and main calls asynqServer.Shutdown(): the
\* consumer takes no more tasks and waits for the handlers that are running.
Shutdown ==
    /\ proc.state = "running"
    /\ proc' = [state |-> "stopping", inflight |-> {t \in Tasks : InFlight(t)}]
    /\ UNCHANGED <<rows, call, task, attempts, posts, trans, faults, tok, http, calc>>

\* The wait of Shutdown is bounded by the server's ShutdownTimeout, which
\* the configuration leaves at its default of seconds: handlers about to
\* return are waited for, a handler sleeping in a backoff is not.  Its task
\* is pushed back to the queue, Shutdown returns and main ends the process
\* with the sleeping handler in it.
Terminate ==
    /\ proc.state = "stopping"
    /\ \A t \in Tasks : InFlight(t) => InBackoff(t)
    /\ proc' = [proc EXCEPT !.state = "terminated"]
    /\ task' = [t \in Tasks |->
                   IF InBackoff(t)
                   THEN [task[t] EXCEPT !.pc = "queued", !.ret = "aborted"]
                   ELSE task[t]]
    /\ UNCHANGED <<rows, call, attempts, posts, trans, faults, tok, http, calc>>

\* ------------------------------------------------------------ specifications

\* Payment initiation alone: every client calls, the store answers every
\* statement.
NextInitiateReliable ==
    \E c \in Clients : \/ IP_Insert(c)
                        \/ IP_CallSTKPush(c)
                        \/ IP_Commit(c)
                        \/ IP_ErrorCommit(c)

\* Store statements of the initiation that fail.
InitiateFaults ==
    \E c \in Clients : \/ IP_InsertFail(c)
                        \/ IP_CommitFail(c)
                        \/ IP_ErrorCommitFail(c)

NextInitiate == NextInitiateReliable \/ InitiateFaults

SpecInitiate == InitEmpty /\ [][NextInitiate]_vars

SpecInitiateReliable == InitEmpty /\ [][NextInitiateReliable]_vars

\* The whole system, live calls next to callback tasks, with a store that
\* answers every statement and workers that run every task to its end.
NextReliable ==
    \/ \E c \in Live : \/ IP_Insert(c)
                       \/ IP_CallSTKPush(c)
                       \/ IP_Commit(c)
                       \/ IP_ErrorCommit(c)
    \/ \E t \in Tasks : \/ Enqueue(t)
                        \/ PC_Find(t)
                        \/ PC_Update(t)
                        \/ SW_Deliver(t)
                        \/ SW_Record(t)

\* Store statements that fail and workers that crash.
Faults ==
    \/ \E c \in Live : \/ IP_InsertFail(c)
                       \/ IP_CommitFail(c)
                       \/ IP_ErrorCommitFail(c)
    \/ \E t \in Tasks : \/ PC_FindFail(t)
                        \/ PC_UpdateFail(t)
                        \/ SW_RecordFail(t)
                        \/ Crash(t)

Next == NextReliable \/ Faults

Spec == Init /\ [][Next]_vars

SpecReliable == Init /\ [][NextReliable]_vars

\* The system with callbacks of any content, the store and the workers
\* reliable.
NextAnyCallback ==
    \/ \E c \in Live : \/ IP_Insert(c)
                       \/ IP_CallSTKPush(c)
                       \/ IP_Commit(c)
                       \/ IP_ErrorCommit(c)
    \/ \E t \in Tasks : \/ EnqueueAny(t)
                        \/ PC_Find(t)
                        \/ PC_Update(t)
                        \/ SW_Deliver(t)
                        \/ SW_Record(t)

SpecAnyCallback == Init /\ [][NextAnyCallback]_vars

\* The system with an upstream that may hand out a checkout id twice, the
\* store and the workers reliable.
NextAnyId ==
    \/ \E c \in Live : \/ IP_Insert(c)
                       \/ IP_CallSTKPushAnyId(c)
                       \/ IP_Commit(c)
                       \/ IP_ErrorCommit(c)
    \/ \E t \in Tasks : \/ Enqueue(t)
                        \/ PC_Find(t)
                        \/ PC_Update(t)
                        \/ SW_Deliver(t)
                        \/ SW_Record(t)

SpecAnyId == Init /\ [][NextAnyId]_vars

\* The /callback endpoint in front of the queue and the workers: requests
\* from any peer with any headers and body, a queue that may refuse a task.
NextCallbackHttp ==
    \/ CB_Post
    \/ \E t \in Tasks : \/ PC_Find(t)
                        \/ PC_Update(t)
                        \/ SW_Deliver(t)
                        \/ SW_Record(t)

SpecCallbackHttp == Init /\ [][NextCallbackHttp]_vars

\* The /initiate endpoint from the request on, with a reliable store.
NextInitiateHttp ==
    \E c \in Clients : \/ HI_Post(c)
                        \/ IP_CallSTKPush(c)
                        \/ IP_Commit(c)
                        \/ IP_ErrorCommit(c)

SpecInitiateHttp == InitEmpty /\ [][NextInitiateHttp]_vars

\* One call of a pure function.
NextCalc ==
    \/ Call_IsValidTransition
    \/ Call_STKAmount
    \/ Call_ParseMpesaMetadata

SpecCalc == InitCalc /\ [][NextCalc]_vars

\* The worker process with a shutdown signal: callbacks keep arriving in the
\* queue, the consumer takes tasks while it runs, handlers go on until the
\* process has terminated.
NextShutdown ==
    \/ \E t \in Tasks : \/ Enqueue(t)
                        \/ SD_Find(t)
                        \/ SD_Update(t)
                        \/ SD_Deliver(t)
                        \/ SD_Record(t)
    \/ Shutdown
    \/ Terminate

SpecShutdown == Init /\ [][NextShutdown]_vars

\* The token service alone: GetToken calls racing on one cache while time
\* passes and the upstream answers as it likes.
NextToken ==
    \/ \E c \in Callers : \/ GT_FastPath(c)
                          \/ GT_Lock(c)
                          \/ GT_RefreshOk(c)
                          \/ GT_RefreshFail(c)
    \/ GT_Tick

SpecToken == InitEmpty /\ [][NextToken]_vars

\* -------------------------------------------------------------------- claims

TerminalStatuses == {StatusCompleted, StatusFailed}

Committed(r) == rows[r] # NoRow

\* No other call has used the idempotency key of call c.
FreshKey(c) == \A d \in Clients \ {c} : call[d].key # call[c].key

Returned(c) == call[c].pc = "done"

STKFailed(c) == call[c].stk.res \in {"token_err", "upstream_err"}

\* C1: a transaction's persisted status only ever changes PENDING->COMPLETED
\* or PENDING->FAILED: every status write recorded for a row is one of these
\* two, a row sees at most one of them, and the status a row holds is the
\* one its last recorded write set (PENDING when there was none).
C1_StatusMovesOnceFromPending ==
    \A r \in Clients :
        /\ Len(trans[r]) <= 1
        /\ \A i \in DOMAIN trans[r] :
              /\ trans[r][i][1] = StatusPending
              /\ trans[r][i][2] \in TerminalStatuses
        /\ Committed(r) =>
              rows[r].status = IF trans[r] = << >> THEN StatusPending
                               ELSE trans[r][Len(trans[r])][2]

\* Two callbacks with differing result codes for one checkout id both read
\* PENDING; one changed the row, the other's UPDATE found it terminal.
C1_Witness ==
    \E t, u \in Tasks :
        /\ task[t].cid = task[u].cid /\ task[t].code # task[u].code
        /\ task[t].cur = StatusPending /\ task[u].cur = StatusPending
        /\ task[t].affected = 1 /\ task[u].affected = 0
        /\ Returned(1)

C5_ReplayedCallbackIsNoOp ==
    /\ [](\A r \in Clients : Len(trans[r]) <= 1)
    /\ [][\A t \in Tasks :
            (/\ task[t].pc = "queued"
             /\ task'[t] # task[t]
             /\ faults' = faults
             /\ RowsByCheckoutID(task[t].cid) # {}
             /\ \A r \in RowsByCheckoutID(task[t].cid) :
                   rows[r].status \in TerminalStatuses) =>
                /\ task'[t].pc = "done"
                /\ task'[t].ret = "nil"
                /\ task'[t].retried = task[t].retried
                /\ rows' = rows
                /\ attempts' = attempts
                /\ posts' = posts
                /\ trans' = trans]_vars

\* The same terminal callback ran twice: the first run changed the row and
\* finished its delivery, the second found the row terminal and returned nil.
C5_Witness ==
    \E t, u \in Tasks :
        /\ t # u /\ task[t].cid = task[u].cid /\ task[t].code = task[u].code
        /\ task[t].pc = "done" /\ task[t].affected = 1
        /\ task[u].pc = "done" /\ task[u].ret = "nil"
        /\ task[u].cur = NewStatus(task[t].code)
        /\ Len(trans[task[t].tx]) = 1

\* C6: when several workers process callbacks for one checkout id and all
\* read PENDING, at most one conditional UPDATE changes the row; a worker
\* whose UPDATE affected zero rows finishes with success.
C6_OneConditionalUpdateWins ==
    /\ \A t, u \in Tasks :
          (t # u /\ task[t].cid = task[u].cid) =>
              ~(task[t].affected > 0 /\ task[u].affected > 0)
    /\ \A t \in Tasks :
          task[t].affected = 0 =>
              /\ task[t].pc = "done"
              /\ task[t].ret = "nil"
              /\ task[t].attempt = 0
    /\ \A r \in Clients : Len(trans[r]) <= 1

\* Two workers read PENDING for the same checkout id; one UPDATE changed the
\* row and the other affected zero rows.
C6_Witness ==
    \E t, u \in Tasks :
        /\ t # u /\ task[t].cid = task[u].cid
        /\ task[t].cur = StatusPending /\ task[u].cur = StatusPending
        /\ task[t].affected = 1 /\ task[u].affected = 0
        /\ task[u].pc = "done"

\* C7: a callback with result code 0 moves the transaction to COMPLETED with
\* no error message; one with a non-zero code moves it to FAILED with the
\* error message set to the callback's result description.
C7_ResultCodeDecidesStatus ==
    \A t \in Tasks :
        task[t].affected > 0 =>
            LET r == task[t].tx
            IN  /\ task[t].code = 0 =>
                      /\ rows[r].status = StatusCompleted
                      /\ rows[r].error = NoErr
                /\ task[t].code # 0 =>
                      /\ rows[r].status = StatusFailed
                      /\ rows[r].error = <<ResultDesc(task[t].code)>>
                /\ trans[r] = <<(<<StatusPending, rows[r].status>>)>>

\* One callback with code 0 and one with a non-zero code have each changed
\* their transaction.
C7_Witness ==
    \E t, u \in Tasks :
        /\ task[t].affected > 0 /\ task[t].code = 0
        /\ task[u].affected > 0 /\ task[u].code # 0

\* C8 as stated: with at-least-once delivery and a worker that may crash at
\* any step, once every delivered task has been retried to its end each
\* terminal transaction has had at least one webhook POST attempted.
C8_EveryTerminalTransactionIsPosted ==
    (\A t \in Tasks : task[t].pc \in {"none", "done", "archived"}) =>
        \A r \in Clients :
            (Committed(r) /\ rows[r].status \in TerminalStatuses) =>
                Len(posts[r]) >= 1

\* C9: a webhook delivery that fails on every attempt does not fail the task
\* and does not alter the transaction: the task ends with nil, is not retried
\* for it, and the row stays as the conditional UPDATE wrote it.
C9_ExhaustedDeliveryKeepsTaskAndRow ==
    \A t \in Tasks :
        /\ (task[t].attempt > maxRetries /\ ~task[t].ok) =>
              /\ task[t].pc = "done"
              /\ task[t].ret = "nil"
        /\ (task[t].affected > 0 /\ task[t].attempt >= 1) =>
              LET r == task[t].tx
              IN  /\ rows[r].status = NewStatus(task[t].code)
                  /\ rows[r].error = ErrorMsg(task[t].code)
                  /\ rows[r].metadata =
                        [json |-> ParseMpesaMetadata(Items(task[t].code))]
                  /\ rows[r].checkout = task[t].cid
                  /\ Len(trans[r]) = 1

\* A delivery made maxRetries POSTs, all of them failures, and its task ended.
C9_Witness ==
    \E t \in Tasks :
        /\ task[t].attempt > maxRetries /\ ~task[t].ok
        /\ Len(posts[task[t].tx]) = maxRetries
        /\ \A i \in 1..maxRetries : ~posts[task[t].tx][i].ok
        /\ task[t].pc = "done"

C12_AttemptRowsContiguousAndComplete ==
    \A t \in Tasks :
        (task[t].affected > 0 /\ task[t].pc \in {"deliver", "record", "done"}) =>
            LET r == task[t].tx
                pending == IF task[t].pc = "record" THEN 1 ELSE 0
            IN  /\ \A i \in DOMAIN attempts[r] : attempts[r][i].n = i
                /\ Len(attempts[r]) = Len(posts[r]) - pending

\* C13 as stated: a delivery loop killed at any point leaves WebhookAttempt
\* rows for exactly the attempts whose POST completed before the kill.
C13_KilledLoopLeavesRowPerCompletedPost ==
    \A t \in Tasks :
        (/\ task[t].ret = "crashed" /\ task[t].pc \in {"queued", "archived"}
         /\ task[t].affected > 0) =>
            LET r == task[t].tx
            IN  /\ Len(attempts[r]) = Len(posts[r])
                /\ \A i \in DOMAIN attempts[r] :
                      /\ attempts[r][i].n = posts[r][i].n
                      /\ attempts[r][i].success = posts[r][i].ok

\* C14 (claim as stated): GetToken calls that were on the slow path together
\* -- each found no valid token, one of them before the other had returned --
\* cause one upstream request between them and all return the same token,
\* whatever the upstream answers.
C14_ConcurrentMissesShareOneRefresh ==
    \A c, d \in Callers :
        (/\ c # d
         /\ tok.gt[c].pc = "done" /\ tok.gt[d].pc = "done"
         /\ tok.gt[c].missed /\ tok.gt[d].missed
         /\ d \in tok.gt[c].with) =>
            /\ ~(tok.gt[c].req # 0 /\ tok.gt[d].req # 0)
            /\ tok.gt[c].err = "" /\ tok.gt[d].err = ""
            /\ tok.gt[c].res = tok.gt[d].res

\* C15: a response without a usable token makes the call that asked return
\* an error and leaves the cached token and its expiry as they were; an error
\* is never handed to a call that did not ask the upstream itself, so the
\* failure is not remembered and, the cache being as invalid as it was, the
\* next call asks the upstream again.
C15_FailedRefreshLeavesCacheAlone ==
    /\ [](\A c \in Callers :
             LET g == tok.gt[c]
             IN  /\ (g.pc = "done" /\ g.err # "") =>
                        /\ g.req # 0 /\ ~tok.reqs[g.req].ok /\ tok.reqs[g.req].by = c
                        /\ g.res = NoToken
                 /\ (g.pc = "done" /\ g.req # 0 /\ ~tok.reqs[g.req].ok) => g.err # ""
                 /\ (g.pc = "done" /\ g.err = "") =>
                        g.res # NoToken /\ tok.reqs[g.res].ok)
    /\ [](tok.token # NoToken =>
             /\ tok.reqs[tok.token].ok
             /\ tok.expiresAt =
                   tok.reqs[tok.token].at + tok.reqs[tok.token].life - SafetyMargin)
    /\ [][(/\ Len(tok'.reqs) = Len(tok.reqs) + 1
           /\ ~tok'.reqs[Len(tok'.reqs)].ok) =>
              /\ tok'.token = tok.token
              /\ tok'.expiresAt = tok.expiresAt
              /\ ~CacheValid(tok')]_vars

\* A refresh failed while an older token sat expired in the cache; the token
\* is still there and a later call has sent a request of its own.
C15_Witness ==
    \E c, d \in Callers :
        /\ tok.gt[c].pc = "done" /\ tok.gt[c].err # ""
        /\ tok.gt[c].req > 1 /\ tok.reqs[1].ok
        /\ tok.gt[d].req > tok.gt[c].req
        /\ tok.token = 1

\* C16 (claim as stated): a token that GetToken returns has at least five
\* minutes left before the upstream lets it expire, that is before the time
\* of its response plus expires_in, whatever expires_in was.
C16_ReturnedTokenHasFiveMinutesLeft ==
    \A c \in Callers :
        (tok.gt[c].pc = "done" /\ tok.gt[c].err = "") =>
            LET r == tok.reqs[tok.gt[c].res]
            IN  (r.at + r.life) - tok.gt[c].at >= SafetyMargin

\* C17 (claim as stated): a callback task without a checkout id is run once
\* and never again -- after its run it is not back in the queue and no retry
\* has been counted -- and it changes no row.
C17_MissingIdIsNotRetried ==
    \A t \in Tasks :
        (task[t].cid = EmptyId /\ task[t].runs >= 1) =>
            /\ task[t].pc # "queued"
            /\ task[t].retried = 0
            /\ task[t].runs = 1
            /\ task[t].affected <= 0

\* C18: a handler run that finds no committed transaction for its checkout
\* id returns the retryable error "failed to find transaction" and changes
\* no row; the queue re-queues the task until three retries are used up and
\* then archives it, so no task is run more than 1 + 3 times; a retry that
\* finds the transaction committed meanwhile, and still PENDING, goes on to
\* the conditional update.
C18_EarlyCallbackIsRetried ==
    /\ [](\A t \in Tasks : task[t].runs <= 1 + MaxRetry)
    /\ [][\A t \in Tasks :
            (/\ task[t].pc = "queued" /\ task'[t] # task[t] /\ faults' = faults
             /\ RowsByCheckoutID(task[t].cid) = {}) =>
                /\ task'[t].ret = "failed to find transaction"
                /\ task'[t].runs = task[t].runs + 1
                /\ IF task[t].retried < MaxRetry
                   THEN task'[t].pc = "queued" /\ task'[t].retried = task[t].retried + 1
                   ELSE task'[t].pc = "archived"
                /\ rows' = rows /\ attempts' = attempts /\ posts' = posts
                /\ trans' = trans]_vars
    /\ [][\A t \in Tasks :
            (/\ task[t].pc = "queued" /\ task'[t] # task[t] /\ faults' = faults
             /\ task[t].retried >= 1
             /\ \E r \in RowsByCheckoutID(task[t].cid) :
                   rows[r].status = StatusPending) =>
                /\ task'[t].pc = "update"
                /\ task'[t].tx \in RowsByCheckoutID(task[t].cid)]_vars

\* A callback came before the commit, was retried, and its retry made the
\* transaction terminal.
C18_Witness ==
    \E t \in Tasks :
        /\ faults = 0
        /\ task[t].retried >= 1 /\ task[t].runs = task[t].retried + 1
        /\ task[t].affected = 1
        /\ rows[task[t].tx].status \in TerminalStatuses

\* C19 (claim as stated): whatever ids the upstream returns, no two committed
\* transactions carry the same non-null checkout id, and the conditional
\* update of a callback changes at most one transaction.
C19_CheckoutIdNamesOneTransaction ==
    /\ \A r1, r2 \in Clients :
          (/\ r1 # r2 /\ rows[r1] # NoRow /\ rows[r2] # NoRow
           /\ rows[r1].checkout # NullId) => rows[r1].checkout # rows[r2].checkout
    /\ \A t \in Tasks : task[t].affected <= 1

\* C20: a committed transaction has a null completion time and null metadata
\* exactly while it is PENDING; both are set by the one update that makes the
\* status terminal, a row is updated at most once, and a terminal row is
\* never written again.
C20_CompletionFieldsFollowStatus ==
    /\ [](\A r \in Clients :
             Committed(r) =>
                /\ (rows[r].status = StatusPending) <=> (rows[r].completed = NullTime)
                /\ (rows[r].status = StatusPending) <=> (rows[r].metadata = NullJson)
                /\ Len(trans[r]) <= 1)
    /\ [][\A r \in Clients :
            (Committed(r) /\ rows'[r] # rows[r]) =>
                /\ rows[r].status = StatusPending
                /\ rows'[r].status \in TerminalStatuses
                /\ rows'[r].completed # NullTime
                /\ rows'[r].metadata # NullJson]_vars

\* A FAILED transaction, its fields set, that a replayed callback has met
\* and left alone.
C20_Witness ==
    \E r \in Clients, t \in Tasks :
        /\ Committed(r) /\ rows[r].status = StatusFailed
        /\ rows[r].completed # NullTime /\ rows[r].metadata # NullJson
        /\ task[t].pc = "done" /\ task[t].tx = r /\ task[t].cur = StatusFailed

\* C21 (claim as stated): for every idempotency key at most one STK Push
\* request has been sent to the upstream, whatever became of the store
\* transactions of the calls that carried the key.
C21_OnePushPerIdempotencyKey ==
    \A k \in Keys :
        Cardinality({c \in Clients :
                        /\ call[c].key = k
                        /\ call[c].stk.res \in {"accepted", "upstream_err"}}) <= 1

\* C22 (claim as stated): every InitiatePayment call that has returned
\* anything but the duplicate error has left one store row and has called the
\* upstream once.
C22_EveryCallLeavesRowAndPush ==
    \A c \in Clients :
        (call[c].pc = "done" /\ call[c].resp.err # ErrDuplicate) =>
            /\ Committed(c)
            /\ call[c].stk.res # "none"

\* C22 (amended): a call whose Begin and INSERT succeed inserts one row, then
\* calls callSTKPush once, then commits, and the row stays exactly when the
\* commit succeeds; a call refused as a duplicate, or whose Begin or INSERT
\* fails, leaves no row and calls nothing.
C22_InsertThenPushThenCommit ==
    /\ [](\A c \in Clients :
             /\ call[c].pc \in {"idle", "inserted"} =>
                    call[c].stk = NoSTK /\ ~Committed(c)
             /\ call[c].pc = "called" => call[c].stk # NoSTK /\ ~Committed(c)
             /\ call[c].pc = "done" =>
                    IF call[c].resp.err \in {ErrDuplicate, ErrBegin, ErrInsert}
                    THEN call[c].stk = NoSTK /\ ~Committed(c)
                    ELSE /\ call[c].stk # NoSTK
                         /\ Committed(c) <=> ~call[c].dbfault)
    /\ [][\A c \in Clients :
            /\ call'[c].stk # call[c].stk =>
                  call[c].pc = "inserted" /\ call'[c].pc = "called"
            /\ (~Committed(c) /\ rows'[c] # NoRow) =>
                  call[c].pc = "called" /\ call'[c].pc = "done"]_vars

\* One call went through insert, push and commit; another called the
\* upstream and lost its row to a failed commit.
C22_Witness ==
    \E c, d \in Clients :
        /\ call[c].pc = "done" /\ call[c].stk.res = "accepted" /\ Committed(c)
        /\ call[d].pc = "done" /\ call[d].stk # NoSTK /\ call[d].dbfault
        /\ ~Committed(d)

\* C23: the row of a call whose STK Push failed or was rejected is PENDING
\* with no checkout id, and stays as it was committed: no callback, whatever
\* id and result code it carries, finds or updates it, no webhook is sent for
\* it, and the call, once returned, is never run again.
C23_FailedPushStaysPending ==
    /\ [](\A c \in Clients :
             (Returned(c) /\ STKFailed(c) /\ Committed(c)) =>
                /\ rows[c].status = StatusPending
                /\ rows[c].checkout = NullId
                /\ rows[c].completed = NullTime
                /\ trans[c] = << >> /\ posts[c] = << >> /\ attempts[c] = << >>
                /\ \A t \in Tasks : task[t].tx # c)
    /\ [][\A c \in Clients :
            (Returned(c) /\ STKFailed(c)) =>
                call'[c] = call[c] /\ rows'[c] = rows[c]]_vars

\* A failed push has left its PENDING row, and a callback naming the id that
\* call would have got has been run four times and archived.
C23_Witness ==
    \E c \in Clients, t \in Tasks :
        /\ Returned(c) /\ STKFailed(c) /\ Committed(c)
        /\ rows[c].status = StatusPending
        /\ task[t].cid = CheckoutOf(c) /\ task[t].pc = "archived"
        /\ task[t].runs = 1 + MaxRetry

\* C24 (claim as stated): every POST /callback request the handler has
\* answered -- whatever its body, whether or not the queue took the task --
\* was answered 200.
C24_CallbackAlwaysAnswers200 ==
    \A i \in DOMAIN http.cb :
        http.cb[i].status # 403 => http.cb[i].status = 200

\* C25 (claim as stated): with the allowlist set, a request is answered by
\* the handler (anything but 403), and can enqueue a task, only if its
\* network peer is an allowed address or lies in an allowed range.
C25_OnlyAllowedPeersReachHandler ==
    \A i \in DOMAIN http.cb :
        (http.cb[i].status # 403 \/ http.cb[i].slot # 0) =>
            isIPAllowed(IPText(http.cb[i].peer), SafaricomIPs)

\* C26 (claim as stated): an /initiate request whose phone is not 254
\* followed by nine digits is answered 400 and the service is never entered
\* for it: no INSERT is attempted, no upstream call made.
C26_BadPhoneStopsAtBoundary ==
    \A c \in Clients :
        (http.ini[c] # NoInitiate /\ ~PhoneCheck(http.ini[c].phone)) =>
            /\ http.ini[c].status = 400
            /\ call[c] = NewCall

\* C27 (claim as stated): a delivery that is given up after every attempt
\* failed has waited an hour before one of its retries, the intervals of the
\* policy being 1, 5, 15 and 60 minutes.
C27_GivenUpOnlyAfterOneHourRetry ==
    \A t \in Tasks :
        (task[t].pc = "done" /\ task[t].sw = ErrWebhook) =>
            LET p == posts[task[t].tx]
            IN  \E i \in 2..Len(p) : p[i].at - p[i - 1].at >= 60

\* C28 (claim as stated): when the process has terminated after a shutdown
\* signal, every callback task that was in a handler at the signal, one
\* sleeping in a webhook backoff included, has run to its end: its handler
\* has returned, none was cut off.
C28_InFlightTasksFinishBeforeExit ==
    proc.state = "terminated" =>
        \A t \in proc.inflight :
            /\ ~InFlight(t)
            /\ task[t].ret # "aborted"

\* C29: at every moment at most one GetToken call has a refresh request to
\* the upstream outstanding, and that call holds the write lock; no call
\* reads or waits inside the lock meanwhile.
C29_OneRefreshInFlight ==
    /\ Cardinality({c \in Callers : tok.gt[c].pc = "refresh"}) <= 1
    /\ \A c \in Callers :
          tok.gt[c].pc = "refresh" <=> tok.mu = c
    /\ \A c \in Callers :
          tok.gt[c].pc = "refresh" => tok.gt[c].req = Len(tok.reqs) + 1

\* A refresh has failed, another call is refreshing now, and a third waits
\* for the lock.
C29_Witness ==
    \E c, d \in Callers :
        /\ c # d
        /\ tok.gt[c].pc = "refresh" /\ tok.gt[d].pc = "wait"
        /\ Len(tok.reqs) >= 1 /\ ~tok.reqs[1].ok

\* C30: the invalid-transition branch of ProcessCallback is never taken: no
\* handler run ends with its error, and for every stored status that gets
\* past the not-PENDING check and every result code the transition to the
\* target status is a valid one.
C30_InvalidTransitionUnreachable ==
    /\ \A t \in Tasks : task[t].ret # "invalid state transition"
    /\ \A cur \in Statuses, code \in ResultCodes :
          /\ Decide(cur, code) # "invalid"
          /\ cur = StatusPending => IsValidTransition(cur, NewStatus(code))
    /\ \A t \in Tasks :
          task[t].pc \in {"update", "deliver", "record"} =>
              /\ task[t].cur = StatusPending
              /\ IsValidTransition(task[t].cur, NewStatus(task[t].code))

\* One handler got past both checks with a failure code and updated the row;
\* another met the row terminal and skipped.
C30_Witness ==
    \E t, u \in Tasks :
        /\ task[t].affected = 1 /\ task[t].code # 0 /\ task[t].cur = StatusPending
        /\ task[u].pc = "done" /\ task[u].cur \in TerminalStatuses

\* C31: IsValidTransition(from, to) is true exactly for (PENDING, COMPLETED)
\* and (PENDING, FAILED); it is false for every other pair: (PENDING,
\* PENDING), every pair with a terminal from, and every pair with a from or
\* a to that is none of the three statuses.
C31_OnlyPendingToTerminalIsValid ==
    (calc.fn = "IsValidTransition" /\ calc.done) =>
        (calc.out <=>
            (calc.in \in {<<StatusPending, StatusCompleted>>,
                          <<StatusPending, StatusFailed>>}))

\* A pair that is refused although its from is PENDING has been evaluated.
C31_Witness ==
    /\ calc.fn = "IsValidTransition"
    /\ calc.done
    /\ calc.in = <<StatusPending, StatusPending>>
    /\ calc.out = FALSE

\* C32 (claim as stated): for every transaction at most one webhook delivery loop is ever
\* started, whatever number of duplicate, concurrent or redelivered callback
\* tasks there are: only the run whose conditional UPDATE changed the row is
\* in sendWebhook, the POSTs a transaction has received are the attempts
\* 1, 2, ... of one loop, and there are at most 4 of them.
C32_OneDeliveryLoopPerTransaction ==
    \A c \in Clients :
        /\ Len(posts[c]) <= maxRetries
        /\ \A i \in DOMAIN posts[c] : posts[c][i].n = i
        /\ Cardinality({t \in Tasks : /\ task[t].pc \in {"deliver", "record"}
                                      /\ task[t].tx = c}) <= 1
        /\ \A t \in Tasks :
              (task[t].pc \in {"deliver", "record"} /\ task[t].tx = c)
                  => task[t].affected > 0

\* C33 (claim as stated): every webhook POST sent for a transaction carries
\* the terminal status the store holds for that transaction, also when
\* callbacks with different result codes for one checkout id are processed
\* concurrently; no webhook announces a status the store does not hold.
C33_WebhookCarriesStoredStatus ==
    \A c \in Clients : \A i \in DOMAIN posts[c] :
        /\ rows[c] # NoRow
        /\ rows[c].status \in TerminalStatuses
        /\ posts[c][i].status = rows[c].status

\* C34: all attempts of one delivery loop send the same payload bytes and
\* the same X-Signature value; the signature is the HMAC-SHA256 of exactly
\* the bytes sent as the body, keyed by the internal transaction id, and it
\* is computed once, before the first attempt.
C34_OnePayloadOneSignaturePerLoop ==
    /\ \A c \in Clients : \A i \in DOMAIN posts[c] :
          /\ posts[c][i].signature = generateSignature(posts[c][i].body, c)
          /\ posts[c][i].body = posts[c][1].body
          /\ posts[c][i].signature = posts[c][1].signature
          /\ posts[c][i].body # NoBytes
    /\ \A t \in Tasks :
          task[t].pc \in {"deliver", "record"} =>
              /\ task[t].payloadBytes # NoBytes
              /\ task[t].signature =
                     generateSignature(task[t].payloadBytes, task[t].tx)
              /\ \A i \in DOMAIN posts[task[t].tx] :
                     posts[task[t].tx][i].body = task[t].payloadBytes

\* A loop has made its four attempts, the last one 21 minutes after the
\* first, all with the body and the signature of the first.
C34_Witness ==
    \E c \in Clients :
        /\ Len(posts[c]) = maxRetries
        /\ posts[c][maxRetries].at > posts[c][1].at
        /\ posts[c][maxRetries].body = posts[c][1].body
        /\ posts[c][1].signature = generateSignature(posts[c][1].body, c)

\* C35 (claim as stated): whenever the upstream has accepted the STK Push of
\* an InitiatePayment call that has returned, a committed row carries the
\* returned checkout id, also when the follow-up UPDATE or the Commit
\* failed, so that a later callback for that id finds its transaction.
C35_AcceptedPushHasCommittedRow ==
    \A c \in Clients :
        (call[c].pc = "done" /\ call[c].stk.res = "accepted") =>
            \E r \in Clients :
                rows[r] # NoRow /\ rows[r].checkout = call[c].stk.cid

C37_ValidCacheIsReturnedUntouched ==
    [][\A c \in Callers :
          (/\ tok.token # NoToken
           /\ tok.now < tok.expiresAt
           /\ tok.gt[c].pc \in {"idle", "wait"}
           /\ tok'.gt[c] # tok.gt[c]) =>
              /\ tok'.gt[c].pc = "done"
              /\ tok'.gt[c].res = tok.token
              /\ tok'.gt[c].err = ""
              /\ tok'.gt[c].req = 0
              /\ tok'.reqs = tok.reqs
              /\ tok'.token = tok.token
              /\ tok'.expiresAt = tok.expiresAt
              /\ tok'.mu = 0]_vars

\* One request has been made; a call that began after it returned its token
\* from the fast path, and a call that had missed the cache before returned
\* the same token from the second test, neither with a request of its own.
C37_Witness ==
    \E c, d \in Callers :
        /\ Len(tok.reqs) = 1
        /\ tok.token # NoToken /\ tok.now < tok.expiresAt
        /\ tok.gt[c].pc = "done" /\ ~tok.gt[c].missed /\ tok.gt[c].req = 0
        /\ tok.gt[c].res = tok.token
        /\ tok.gt[d].pc = "done" /\ tok.gt[d].missed /\ tok.gt[d].req = 0
        /\ tok.gt[d].res = tok.token

\* C38 (claim as stated): for every amount the /initiate boundary accepts
\* (a decimal strictly greater than zero) the amount text sent in the STK
\* Push request denotes a positive integer with no fractional part.
C38_SentAmountIsPositiveInteger ==
    (calc.fn = "STKAmount" /\ calc.done /\ calc.out.status # 400) =>
        /\ IsDigits(calc.out.sent)
        /\ Atoi(calc.out.sent) > 0

\* C39: for every list of metadata items ParseMpesaMetadata returns a mapping
\* whose keys are exactly the non-empty names of the list, each mapped to
\* the value of its last occurrence; items with an empty name are dropped
\* and an empty list gives an empty mapping.
C39_MetadataMapsNamesToLastValue ==
    (calc.fn = "ParseMpesaMetadata" /\ calc.done) =>
        LET items == calc.in
            names == {items[i].Name : i \in DOMAIN items} \ {""}
        IN  /\ DOMAIN calc.out = names
            /\ \A k \in names :
                  \E i \in DOMAIN items :
                      /\ items[i].Name = k
                      /\ \A j \in DOMAIN items : items[j].Name = k => j <= i
                      /\ calc.out[k] = items[i].Value
            /\ items = << >> => calc.out = << >>

\* A list in which a name occurs twice with different values, around an
\* item without a name, has been parsed: the later value is the one kept.
C39_Witness ==
    /\ calc.fn = "ParseMpesaMetadata"
    /\ calc.done
    /\ Len(calc.in) = 3
    /\ calc.in[1].Name = "Amount" /\ calc.in[3].Name = "Amount"
    /\ calc.in[2].Name = ""
    /\ calc.in[1].Value # calc.in[3].Value
    /\ DOMAIN calc.out = {"Amount"}
    /\ calc.out["Amount"] = calc.in[3].Value

=============================================================================
